---- MODULE Spec2Model ----
(***************************************************************************)
(* Model of the AI anomaly-detection and RCA engine, src/ai-engine/main.py *)
(*                                                                         *)
(* Python strings whose content the code inspects (metric names, log       *)
(* messages) are sequences of one-character strings, so that `in` and      *)
(* lower() are computed character by character.  Severities and topics are *)
(* only compared for equality and stay TLA+ strings.  The score returned   *)
(* by river's HalfSpaceTrees.score_one (a float in the library, which is   *)
(* not part of this repository) is a fixed-point number of thousandths     *)
(* chosen nondeterministically.                                            *)
(***************************************************************************)
EXTENDS Integers, Sequences, FiniteSets, TLC

VARIABLES
    detectors,    \* main.py:15  defaultdict: metric name -> HalfSpaceTrees
    log_buffer,   \* main.py:24  deque(maxlen=LOG_BUFFER_SIZE) of log records
    sent,         \* main.py:145 values handed to producer.send, in order
    pc,           \* position of main(): "idle", "metrics" (inside the loop
                  \* of process_message, line 155) or "crashed" (an
                  \* exception left main's for loop, line 187)
    pending,      \* the (metric_name, value) pairs of the current message
                  \* that the loop of line 155 has not reached yet
    appended,     \* history: every record passed to log_buffer.append
    constructed,  \* history: number of calls of the defaultdict's factory
    last,         \* history: what the last step of main() did
    matched,      \* history: number of samples processed so far that were
                  \* scored above 0.8 and whose name matches a rule of
                  \* generate_recommendation
    clock,        \* the wall clock read by time.time(), in milliseconds
    callers       \* threads of the concurrent-access scenario (SpecConc)

vars ==
    <<detectors, log_buffer, sent, pc, pending, appended, constructed, last,
      matched, clock, callers>>

-----------------------------------------------------------------------------
(* Bounds of the model *)

\* capacity of the deque; 1000 in main.py:23, scaled down here
LOG_BUFFER_SIZE == 2
\* records appended over a run beyond the capacity of the buffer
MaxExtra == 2
\* metric samples processed over a run
MaxSamples == 2
\* datapoints or log records carried by one message
MaxBatch == 2
\* longest buffer the scan of perform_rca is applied to in SpecRCA
RcaMaxLen == 6
\* number of concurrent callers of SpecConc
NumCallers == 2
\* latest reading of the wall clock in SpecClock, in milliseconds
MaxClock == 2

-----------------------------------------------------------------------------
(* Strings *)

s_request_time == <<"r","e","q","u","e","s","t","_","t","i","m","e">>
s_latency == <<"l","a","t","e","n","c","y">>
s_cpu == <<"c","p","u">>
s_error == <<"e","r","r","o","r">>

m_nginx_request_time_ms == <<"n","g","i","n","x","_","r","e","q","u","e","s","t","_","t","i","m","e","_","m","s">>
m_node_cpu_usage == <<"n","o","d","e","_","c","p","u","_","u","s","a","g","e">>
m_disk_free_bytes == <<"d","i","s","k","_","f","r","e","e","_","b","y","t","e","s">>
m_CPU_LOAD == <<"C","P","U","_","L","O","A","D">>
m_cpu_latency == <<"c","p","u","_","l","a","t","e","n","c","y">>
m_upstream_Latency == <<"u","p","s","t","r","e","a","m","_","L","a","t","e","n","c","y">>
m_cpu_request_time == <<"c","p","u","_","r","e","q","u","e","s","t","_","t","i","m","e">>
m_empty == << >>

t_disk_full == <<"d","i","s","k"," ","f","u","l","l">>
t_ok == <<"o","k">>
t_oom == <<"o","o","m">>
t_IO_Error == <<"I","O"," ","E","r","R","o","r">>
t_a == <<"a">>
t_b == <<"b">>

UpperCase == <<"A","B","C","D","E","F","G","H","I","J","K","L","M","N","O","P","Q","R","S","T","U","V","W","X","Y","Z">>
LowerCase == <<"a","b","c","d","e","f","g","h","i","j","k","l","m","n","o","p","q","r","s","t","u","v","w","x","y","z">>

\* str.lower(): every upper-case letter replaced by its lower-case letter
LowerChar(c) ==
    IF \E i \in 1..Len(UpperCase) : UpperCase[i] = c
    THEN LowerCase[CHOOSE i \in 1..Len(UpperCase) : UpperCase[i] = c]
    ELSE c

Lower(s) == [i \in 1..Len(s) |-> LowerChar(s[i])]

\* p in s, for Python strings: p occurs in s as a contiguous substring
Contains(s, p) ==
    \E i \in 0..(Len(s) - Len(p)) : \A j \in 1..Len(p) : s[i + j] = p[j]

-----------------------------------------------------------------------------
(* Inputs *)

MetricNames == {m_nginx_request_time_ms, m_node_cpu_usage, m_disk_free_bytes}

\* scores in thousandths: both thresholds and their upper neighbours
Scores == {500, 501, 800, 801}

SinkOutcomes == {"ok", "send_raises", "flush_raises"}

LogRecord(ts, sev, msg) == [timestamp |-> ts, severity |-> sev, message |-> msg]

LogRecords ==
    { LogRecord(1, "ERROR", t_disk_full), LogRecord(2, "INFO", t_ok) }

\* One dataPoint of an OTLP metrics payload, with the name of its metric.
\* valid = FALSE: a dataPoint on which line 51-52 raises (float() of a
\* value that is no number), caught by line 55.
DataPoints ==
    { [name |-> m_nginx_request_time_ms, val |-> 450, valid |-> TRUE],
      [name |-> m_node_cpu_usage, val |-> 95, valid |-> TRUE],
      [name |-> m_disk_free_bytes, val |-> 10, valid |-> TRUE],
      [name |-> m_node_cpu_usage, val |-> 0, valid |-> FALSE] }

\* One logRecord of an OTLP logs payload.  valid = FALSE: a logRecord on
\* which line 73 raises (int() of a timeUnixNano that is no number).
LogEntries ==
    [rec : LogRecords, valid : {TRUE}]
        \cup { [rec |-> LogRecord(0, "INFO", t_ok), valid |-> FALSE] }

SeqsUpTo(S, n) == UNION { [1..k -> S] : k \in 0..n }

-----------------------------------------------------------------------------
(* Pure functions of main.py *)

\* an exception is raised inside the parser's try block, lines 34-54 and
\* 60-80: some entry of the payload cannot be converted
ParseRaises(payload) == \E i \in 1..Len(payload) : ~payload[i].valid

\* the number of entries the parser's loop had appended to results when it
\* raised: the entries before the first one that cannot be converted
Extracted(payload) ==
    IF ParseRaises(payload)
    THEN (CHOOSE i \in 1..Len(payload) :
            /\ ~payload[i].valid
            /\ \A j \in 1..(i - 1) : payload[j].valid) - 1
    ELSE Len(payload)

\* the number of extracted entries that the except branch, lines 55-56 and
\* 81-82, throws away with its return []
Discarded(payload) == IF ParseRaises(payload) THEN Extracted(payload) ELSE 0

\* parse_otlp_metrics whose except branch returns the results extracted
\* before the exception
parse_otlp_metrics_Partial(payload) ==
    [i \in 1..Extracted(payload) |->
        [name |-> payload[i].name, value |-> payload[i].val]]

\* parse_otlp_metrics: the (name, value) pairs of the payload's dataPoints,
\* or [] when anything in the payload raises
parse_otlp_metrics(payload) ==
    IF ParseRaises(payload)
    THEN << >>
    ELSE [i \in 1..Len(payload) |->
            [name |-> payload[i].name, value |-> payload[i].val]]

\* parse_otlp_logs: the records of the payload's logRecords, or [] when
\* anything in the payload raises
parse_otlp_logs(payload) ==
    IF ParseRaises(payload)
    THEN << >>
    ELSE [i \in 1..Len(payload) |-> payload[i].rec]

\* the constructor call of the defaultdict's factory, lines 15-20;
\* id tells the instances apart, learned counts its learn_one calls
HalfSpaceTrees(id) ==
    [id |-> id, n_trees |-> 10, height |-> 8, window_size |-> 200, seed |-> 42,
     learned |-> 0]

\* Classify with the thresholds themselves counted into the upper tier
Classify_Inclusive(score) ==
    IF score >= 800 THEN "ALERT"
    ELSE IF score >= 500 THEN "WARNING"
    ELSE "NORMAL"

\* the two comparisons of lines 161 and 164
Classify(score) ==
    IF score > 800 THEN "ALERT"
    ELSE IF score > 500 THEN "WARNING"
    ELSE "NORMAL"

\* generate_recommendation with the cpu rule tried first
generate_recommendation_CpuFirst(metric_name, value) ==
    IF Contains(metric_name, s_cpu)
    THEN << [id |-> clock, title |-> "Optimize Worker Connections",
             impact |-> "medium", category |-> "Performance", confidence |-> 75,
             value |-> value, timestamp |-> clock \div 1000] >>
    ELSE IF Contains(metric_name, s_request_time) \/ Contains(metric_name, s_latency)
    THEN << [id |-> clock, title |-> "Enable Micro-Caching", impact |-> "high",
             category |-> "Performance", confidence |-> 89, value |-> value,
             timestamp |-> clock \div 1000] >>
    ELSE << >>

\* generate_recommendation: << >> is None, <<r>> the dict returned; id is
\* int(time.time() * 1000), line 86, timestamp is int(time.time())
generate_recommendation(metric_name, value) ==
    IF Contains(metric_name, s_request_time) \/ Contains(metric_name, s_latency)
    THEN << [id |-> clock, title |-> "Enable Micro-Caching", impact |-> "high",
             category |-> "Performance", confidence |-> 89, value |-> value,
             timestamp |-> clock \div 1000] >>
    ELSE IF Contains(metric_name, s_cpu)
    THEN << [id |-> clock, title |-> "Optimize Worker Connections",
             impact |-> "medium", category |-> "Performance", confidence |-> 75,
             value |-> value, timestamp |-> clock \div 1000] >>
    ELSE << >>

\* IsErrorLog without the lower() of line 126
IsErrorLog_CaseSensitive(l) ==
    l.severity \in {"ERROR", "FATAL"} \/ Contains(l.message, s_error)

\* line 126: the records of the buffer that count as errors, in buffer order
IsErrorLog(l) ==
    l.severity \in {"ERROR", "FATAL"} \/ Contains(Lower(l.message), s_error)

error_logs(buf) == SelectSeq(buf, IsErrorLog)

\* ShowLoop without the shown_errors test of line 134
RECURSIVE ShowLoop_NoDedup(_, _, _)
ShowLoop_NoDedup(errs, i, shown) ==
    IF i = 0 THEN shown
    ELSE LET shown2 == Append(shown, [severity |-> errs[i].severity,
                                      message |-> errs[i].message])
         IN IF Len(shown2) >= 5 THEN shown2
            ELSE ShowLoop_NoDedup(errs, i - 1, shown2)

\* lines 131-139: the loop over reversed(error_logs); i is the index into
\* error_logs of the record looked at (Len..1), shown the (severity,
\* message) pairs printed so far
RECURSIVE ShowLoop(_, _, _)
ShowLoop(errs, i, shown) ==
    IF i = 0 THEN shown
    ELSE IF \E k \in 1..Len(shown) : shown[k].message = errs[i].message
    THEN ShowLoop(errs, i - 1, shown)
    ELSE LET shown2 == Append(shown, [severity |-> errs[i].severity,
                                      message |-> errs[i].message])
         IN IF Len(shown2) >= 5 THEN shown2
            ELSE ShowLoop(errs, i - 1, shown2)

\* the diagnostic lines perform_rca prints for a buffer, lines 126-139
RcaDiag(buf) ==
    LET errs == error_logs(buf)
    IN IF errs # << >> THEN ShowLoop(errs, Len(errs), << >>) ELSE << >>

\* DequeAppend that makes room at the wrong end
DequeAppend_DropNewest(buf, x) ==
    IF Len(buf) >= LOG_BUFFER_SIZE
    THEN Append(SubSeq(buf, 1, Len(buf) - 1), x)
    ELSE Append(buf, x)

\* deque.append with maxlen: a full deque drops its oldest element
DequeAppend(buf, x) ==
    IF Len(buf) >= LOG_BUFFER_SIZE
    THEN Append(Tail(buf), x)
    ELSE Append(buf, x)

RECURSIVE AppendAll(_, _)
AppendAll(buf, logs) ==
    IF logs = << >> THEN buf
    ELSE AppendAll(DequeAppend(buf, Head(logs)), Tail(logs))

-----------------------------------------------------------------------------
(* State *)

NoEvent ==
    [kind |-> "none", name |-> << >>, value |-> 0, score |-> 0,
     tier |-> "NORMAL", scanned |-> FALSE, diag |-> << >>, rec |-> << >>,
     sink |-> "none", model |-> 0, seen |-> 0,
     topic |-> "", malformed |-> FALSE, dropped |-> 0]

Registered == DOMAIN detectors

RECURSIVE SumLearned(_)
SumLearned(S) ==
    IF S = {} THEN 0
    ELSE LET n == CHOOSE n \in S : TRUE
         IN detectors[n].learned + SumLearned(S \ {n})

TotalLearned == SumLearned(Registered)

Init ==
    /\ detectors = [n \in {} |-> HalfSpaceTrees(0)]
    /\ log_buffer = << >>
    /\ sent = << >>
    /\ pc = "idle"
    /\ pending = << >>
    /\ appended = << >>
    /\ constructed = 0
    /\ last = NoEvent
    /\ matched = 0
    /\ clock = 0
    /\ callers = << >>

-----------------------------------------------------------------------------
(* process_message and perform_rca *)

\* GetItem that calls the factory on every access, as detectors[name] =
\* HalfSpaceTrees(...) before each use would
GetItem_AlwaysNew(d, name, id) ==
    [n \in DOMAIN d \cup {name} |->
        IF n = name THEN HalfSpaceTrees(id) ELSE d[n]]

\* detectors[metric_name], line 157: a defaultdict stores the factory's
\* value under a missing key and returns the stored value
GetItem(d, name, id) ==
    IF name \in DOMAIN d THEN d
    ELSE [n \in DOMAIN d \cup {name} |->
            IF n = name THEN HalfSpaceTrees(id) ELSE d[n]]

\* learn_one reaching every registered model, as one model shared by all
\* names would have it
learn_one_All(d, name) ==
    [n \in DOMAIN d |-> [d[n] EXCEPT !.learned = @ + 1]]

\* model.learn_one, line 159, as far as this model follows the library
learn_one(d, name) == [d EXCEPT ![name].learned = @ + 1]

NoRca == [scanned |-> FALSE, diag |-> << >>, rec |-> << >>, sink |-> "none"]

\* perform_rca that returns after the scan when it found nothing
perform_rca_NeedsErrors(buf, metric_name, value, outcome) ==
    LET rec == IF RcaDiag(buf) = << >> THEN << >>
               ELSE generate_recommendation(metric_name, value)
    IN [scanned |-> TRUE,
        diag |-> RcaDiag(buf),
        rec |-> rec,
        sink |-> IF rec # << >> THEN outcome ELSE "none"]

\* perform_rca, lines 121-148: the scan of the buffer, then the
\* recommendation and, when there is one, send and flush, which end as
\* outcome says
perform_rca(buf, metric_name, value, outcome) ==
    LET rec == generate_recommendation(metric_name, value)
    IN [scanned |-> TRUE,
        diag |-> RcaDiag(buf),
        rec |-> rec,
        sink |-> IF rec # << >> THEN outcome ELSE "none"]

\* CallsRca taken on the warning threshold of line 164
CallsRca_OnWarning(score) == score > 500

\* line 161: the branch that calls perform_rca
CallsRca(score) == Classify(score) = "ALERT"

\* producer.send that hands the value over a second time, as a retry would
producer_send_Twice(q, rec) == Append(Append(q, rec), rec)

\* producer.send, line 145: one value handed to the producer
producer_send(q, rec) == Append(q, rec)

\* the model that score_one runs on, had learn_one been called first
ScoredModel_AfterLearn(d, name) == learn_one(d, name)[name]

\* the model that score_one runs on, line 158: the registry's model as it
\* is before learn_one, line 159
ScoredModel(d, name) == d[name]

\* a name for which generate_recommendation has a rule, lines 88 and 103
RuleMatches(name) ==
    \/ Contains(name, s_request_time)
    \/ Contains(name, s_latency)
    \/ Contains(name, s_cpu)

\* one message of topic telemetry-metrics is taken from the consumer and
\* parsed, lines 187, 153-154
ConsumeMetrics ==
    /\ pc = "idle"
    /\ \E payload \in SeqsUpTo(DataPoints, MaxBatch) :
         LET metrics == parse_otlp_metrics(payload)
         IN /\ TotalLearned + Len(metrics) <= MaxSamples
            /\ pending' = metrics
            /\ pc' = IF metrics = << >> THEN "idle" ELSE "metrics"
            /\ last' = [NoEvent EXCEPT !.kind = "metrics_msg",
                                       !.topic = "telemetry-metrics",
                                       !.malformed = ParseRaises(payload),
                                       !.dropped = Discarded(payload)]
    /\ UNCHANGED <<matched, clock, detectors, log_buffer, sent, appended, constructed, callers>>

\* one iteration of the loop of lines 155-165, perform_rca included
ProcessSample ==
    /\ pc = "metrics"
    /\ pending # << >>
    /\ \E score \in Scores, outcome \in SinkOutcomes :
         LET s == Head(pending)
             d1 == GetItem(detectors, s.name, constructed + 1)
             d2 == learn_one(d1, s.name)
             rca == IF CallsRca(score)
                    THEN perform_rca(log_buffer, s.name, s.value, outcome)
                    ELSE NoRca
             raised == rca.sink \in {"send_raises", "flush_raises"}
         IN /\ rca.sink = "none" => outcome = "ok"
            /\ detectors' = d2
            /\ constructed' =
                 IF s.name \in DOMAIN detectors THEN constructed
                 ELSE constructed + 1
            /\ sent' = IF rca.rec # << >> THEN producer_send(sent, rca.rec[1])
                       ELSE sent
            /\ matched' = IF Classify(score) = "ALERT" /\ RuleMatches(s.name)
                          THEN matched + 1
                          ELSE matched
            /\ pending' = Tail(pending)
            /\ pc' = IF raised THEN "crashed"
                     ELSE IF Tail(pending) = << >> THEN "idle"
                     ELSE "metrics"
            /\ last' = [kind |-> "sample", name |-> s.name, value |-> s.value,
                        score |-> score, tier |-> Classify(score),
                        scanned |-> rca.scanned, diag |-> rca.diag,
                        rec |-> rca.rec, sink |-> rca.sink,
                        model |-> d2[s.name].id,
                        seen |-> ScoredModel(d1, s.name).learned,
                        topic |-> "telemetry-metrics", malformed |-> FALSE,
                        dropped |-> 0]
    /\ UNCHANGED <<clock, log_buffer, appended, callers>>

\* one message of topic telemetry-logs, lines 187, 167-170
ConsumeLogs ==
    /\ pc = "idle"
    /\ \E payload \in SeqsUpTo(LogEntries, MaxBatch) :
         LET logs == parse_otlp_logs(payload)
         IN /\ Len(appended) + Len(logs) <= LOG_BUFFER_SIZE + MaxExtra
            /\ log_buffer' = AppendAll(log_buffer, logs)
            /\ appended' = appended \o logs
            /\ last' = [NoEvent EXCEPT !.kind = "logs_msg",
                                       !.topic = "telemetry-logs",
                                       !.malformed = ParseRaises(payload),
                                       !.dropped = Discarded(payload)]
    /\ UNCHANGED <<matched, clock, detectors, sent, pc, pending, constructed, callers>>

Next ==
    \/ ConsumeMetrics
    \/ ProcessSample
    \/ ConsumeLogs

Spec == Init /\ [][Next]_vars

-----------------------------------------------------------------------------
(* process_message called with a message of any topic.  main() subscribes   *)
(* to the two telemetry topics only, line 174-175; process_message itself   *)
(* compares the topic with each of them, lines 153 and 167, and has no      *)
(* else branch.                                                             *)

OtherTopics == {"telemetry-traces", "Telemetry-Logs"}

\* an unknown topic falling into the logs branch, as an else in place of
\* the elif of line 167 would have it
ConsumeOther_AsLogs ==
    /\ pc = "idle"
    /\ \E topic \in OtherTopics, payload \in SeqsUpTo(LogEntries, MaxBatch) :
         LET logs == parse_otlp_logs(payload)
         IN /\ Len(appended) + Len(logs) <= LOG_BUFFER_SIZE + MaxExtra
            /\ log_buffer' = AppendAll(log_buffer, logs)
            /\ appended' = appended \o logs
            /\ last' = [NoEvent EXCEPT !.kind = "other_msg", !.topic = topic]
    /\ UNCHANGED <<matched, clock, detectors, sent, pc, pending, constructed, callers>>

\* one message of a topic that is neither telemetry-metrics nor
\* telemetry-logs, lines 150-170: neither branch is taken
ConsumeOther ==
    /\ pc = "idle"
    /\ \E topic \in OtherTopics :
         last' = [NoEvent EXCEPT !.kind = "other_msg", !.topic = topic]
    /\ UNCHANGED <<matched, clock, detectors, log_buffer, sent, pc, pending,
                   appended, constructed, callers>>

NextTopics ==
    \/ ConsumeMetrics
    \/ ProcessSample
    \/ ConsumeLogs
    \/ ConsumeOther

SpecTopics == Init /\ [][NextTopics]_vars

-----------------------------------------------------------------------------
(* perform_rca's scan as a function of the buffer's content.  The scan     *)
(* only reads the buffer, whose capacity in main.py is 1000; the buffers   *)
(* here are all sequences of at most RcaMaxLen records of RcaRecords.      *)

RcaRecords ==
    { LogRecord(1, "ERROR", t_disk_full),
      LogRecord(2, "INFO", t_ok),
      LogRecord(3, "FATAL", t_oom),
      LogRecord(4, "FATAL", t_disk_full),
      LogRecord(5, "INFO", t_IO_Error),
      LogRecord(6, "ERROR", t_a),
      LogRecord(7, "FATAL", t_b),
      LogRecord(8, "ERROR", t_ok) }

InitRCA ==
    /\ detectors = [n \in {} |-> HalfSpaceTrees(0)]
    /\ log_buffer = << >>
    /\ sent = << >>
    /\ pc = "rca"
    /\ pending = << >>
    /\ appended = << >>
    /\ constructed = 0
    /\ last = NoEvent
    /\ matched = 0
    /\ clock = 0
    /\ callers = << >>

\* the choice of the buffer's content, one record at a time
ChooseBuffer ==
    /\ pc = "rca"
    /\ last.kind = "none"
    /\ Len(log_buffer) < RcaMaxLen
    /\ \E l \in RcaRecords : log_buffer' = Append(log_buffer, l)
    /\ UNCHANGED <<matched, clock, detectors, sent, pc, pending, appended, constructed, last,
                   callers>>

\* lines 126-139 applied to the buffer
ApplyRca ==
    /\ pc = "rca"
    /\ last.kind = "none"
    /\ last' = [NoEvent EXCEPT !.kind = "rca", !.scanned = TRUE,
                               !.diag = RcaDiag(log_buffer)]
    /\ UNCHANGED <<matched, clock, detectors, log_buffer, sent, pc, pending, appended,
                   constructed, callers>>

NextRCA ==
    \/ ChooseBuffer
    \/ ApplyRca

SpecRCA == InitRCA /\ [][NextRCA]_vars

-----------------------------------------------------------------------------
(* generate_recommendation as a function of its arguments *)

GenNames ==
    { m_nginx_request_time_ms, m_node_cpu_usage, m_disk_free_bytes, m_CPU_LOAD,
      m_cpu_latency, m_upstream_Latency, m_cpu_request_time, m_empty }

GenValues == {0, 1, 10, 95, 450, 999, 1000}

InitGen ==
    /\ detectors = [n \in {} |-> HalfSpaceTrees(0)]
    /\ log_buffer = << >>
    /\ sent = << >>
    /\ pc = "gen"
    /\ pending \in { << [name |-> n, value |-> v] >> : n \in GenNames, v \in GenValues }
    /\ appended = << >>
    /\ constructed = 0
    /\ last = NoEvent
    /\ matched = 0
    /\ clock = 0
    /\ callers = << >>

\* line 142 applied to the arguments
ApplyGenerate ==
    /\ pc = "gen"
    /\ pending # << >>
    /\ last' = [NoEvent EXCEPT
                  !.kind = "generate",
                  !.name = pending[1].name,
                  !.value = pending[1].value,
                  !.rec = generate_recommendation(pending[1].name, pending[1].value)]
    /\ pending' = << >>
    /\ UNCHANGED <<matched, clock, detectors, log_buffer, sent, pc, appended, constructed,
                   callers>>

NextGen == ApplyGenerate

SpecGen == InitGen /\ [][NextGen]_vars

-----------------------------------------------------------------------------
(* detectors[metric_name] called from several threads.  main() itself has  *)
(* one thread; this is line 157 and line 159 as they run when              *)
(* process_message is entered by NumCallers threads at once.  A defaultdict *)
(* looks the key up, and on a miss calls the factory (Python code, during   *)
(* which threads switch) and then stores and returns the factory's value.   *)

Callers == 1..NumCallers

ConcNames == {m_nginx_request_time_ms, m_node_cpu_usage}

InitConc ==
    /\ detectors = [n \in {} |-> HalfSpaceTrees(0)]
    /\ log_buffer = << >>
    /\ sent = << >>
    /\ pc = "threads"
    /\ pending = << >>
    /\ appended = << >>
    /\ constructed = 0
    /\ last = NoEvent
    /\ matched = 0
    /\ clock = 0
    /\ callers \in [Callers -> [at : {"lookup"}, name : ConcNames, model : {0}]]

\* the lookup of detectors[metric_name]: a hit returns the stored model, a
\* miss enters __missing__
CallerLookup(t) ==
    /\ pc = "threads"
    /\ callers[t].at = "lookup"
    /\ callers' =
         IF callers[t].name \in DOMAIN detectors
         THEN [callers EXCEPT ![t].at = "learn",
                              ![t].model = detectors[callers[t].name].id]
         ELSE [callers EXCEPT ![t].at = "factory"]
    /\ UNCHANGED <<matched, clock, detectors, log_buffer, sent, pc, pending, appended,
                   constructed, last>>

\* __missing__ calls the factory, lines 15-20
CallerFactory(t) ==
    /\ pc = "threads"
    /\ callers[t].at = "factory"
    /\ constructed' = constructed + 1
    /\ callers' = [callers EXCEPT ![t].at = "store",
                                  ![t].model = constructed + 1]
    /\ UNCHANGED <<matched, clock, detectors, log_buffer, sent, pc, pending, appended, last>>

\* __missing__ stores the factory's value under the key and returns it
CallerStore(t) ==
    /\ pc = "threads"
    /\ callers[t].at = "store"
    /\ detectors' =
         [n \in DOMAIN detectors \cup {callers[t].name} |->
            IF n = callers[t].name THEN HalfSpaceTrees(callers[t].model)
            ELSE detectors[n]]
    /\ callers' = [callers EXCEPT ![t].at = "learn"]
    /\ UNCHANGED <<matched, clock, log_buffer, sent, pc, pending, appended, constructed, last>>

\* model.learn_one, line 159, on the model the caller was given: it reaches
\* the registry's model only when that is the same instance
CallerLearn(t) ==
    /\ pc = "threads"
    /\ callers[t].at = "learn"
    /\ detectors' =
         IF detectors[callers[t].name].id = callers[t].model
         THEN learn_one(detectors, callers[t].name)
         ELSE detectors
    /\ callers' = [callers EXCEPT ![t].at = "done"]
    /\ UNCHANGED <<matched, clock, log_buffer, sent, pc, pending, appended, constructed, last>>

NextConc ==
    \E t \in Callers :
        \/ CallerLookup(t)
        \/ CallerFactory(t)
        \/ CallerStore(t)
        \/ CallerLearn(t)

SpecConc == InitConc /\ [][NextConc]_vars

-----------------------------------------------------------------------------
(* A correlation scan interleaved with log appends.  The scan of line 126   *)
(* is a list comprehension over log_buffer: it takes an iterator of the     *)
(* deque and runs Python code for every record, during which threads        *)
(* switch.  The append of line 170 is one call of deque.append, which adds  *)
(* the record and evicts the oldest one in a single step and advances the   *)
(* deque's mutation counter.  The deque's iterator compares that counter    *)
(* with the one it took at its creation and raises RuntimeError ("deque     *)
(* mutated during iteration") when they differ.  No lock guards either      *)
(* line.  The mutation counter is Len(appended).                            *)

InitScan ==
    /\ detectors = [n \in {} |-> HalfSpaceTrees(0)]
    /\ log_buffer \in SeqsUpTo(LogRecords, LOG_BUFFER_SIZE)
    /\ sent = << >>
    /\ pc = "scan"
    /\ pending = << >>
    /\ appended = log_buffer
    /\ constructed = 0
    /\ last = NoEvent
    /\ matched = 0
    /\ clock = 0
    /\ callers = [at |-> "start", i |-> 0, state |-> 0,
                  snap |-> << >>, seen |-> << >>]

\* iter(log_buffer) of the comprehension, line 126
ScanStart ==
    /\ pc = "scan"
    /\ callers.at = "start"
    /\ callers' = [callers EXCEPT !.at = "iter", !.state = Len(appended),
                                  !.snap = log_buffer]
    /\ UNCHANGED <<detectors, log_buffer, sent, pc, pending, appended,
                   constructed, last, matched, clock>>

\* one next() of the iterator, line 126; an iterator with records left to
\* give raises when the deque was mutated since its creation
ScanNext ==
    /\ pc = "scan"
    /\ callers.at = "iter"
    /\ callers' =
         IF callers.i >= Len(callers.snap)
         THEN [callers EXCEPT !.at = "done"]
         ELSE IF callers.state # Len(appended)
         THEN [callers EXCEPT !.at = "raised"]
         ELSE [callers EXCEPT !.i = @ + 1,
                              !.seen = Append(@, log_buffer[callers.i + 1])]
    /\ UNCHANGED <<detectors, log_buffer, sent, pc, pending, appended,
                   constructed, last, matched, clock>>

\* log_buffer.append(log) of another thread, line 170
ConcurrentAppend ==
    /\ pc = "scan"
    /\ Len(appended) < LOG_BUFFER_SIZE + MaxExtra
    /\ \E l \in LogRecords :
         /\ log_buffer' = DequeAppend(log_buffer, l)
         /\ appended' = Append(appended, l)
    /\ UNCHANGED <<detectors, sent, pc, pending, constructed, last, matched,
                   clock, callers>>

NextScan ==
    \/ ScanStart
    \/ ScanNext
    \/ ConcurrentAppend

SpecScan == InitScan /\ [][NextScan]_vars

-----------------------------------------------------------------------------
(* The wall clock.  time.time(), lines 86, 101 and 116, reads the system    *)
(* clock, which the host advances and which NTP or an operator can set      *)
(* back.  Spec holds the clock still; SpecClock lets it move between the    *)
(* steps of main().                                                         *)

\* time passes
ClockAdvance ==
    /\ pc # "crashed"
    /\ clock < MaxClock
    /\ \E t \in (clock + 1)..MaxClock : clock' = t
    /\ UNCHANGED <<detectors, log_buffer, sent, pc, pending, appended,
                   constructed, last, matched, callers>>

\* the system clock is set back
ClockSetBack ==
    /\ pc # "crashed"
    /\ clock > 0
    /\ \E t \in 0..(clock - 1) : clock' = t
    /\ UNCHANGED <<detectors, log_buffer, sent, pc, pending, appended,
                   constructed, last, matched, callers>>

NextClock ==
    \/ ConsumeMetrics
    \/ ProcessSample
    \/ ConsumeLogs
    \/ ClockAdvance
    \/ ClockSetBack

SpecClock == Init /\ [][NextClock]_vars

-----------------------------------------------------------------------------
(* main() as it is scheduled: one thread that runs the loop of line 155 to  *)
(* its end, so an iteration that can be taken is taken.                     *)

SpecLive == Spec /\ WF_vars(ProcessSample)

-----------------------------------------------------------------------------
(* Properties *)

Min(a, b) == IF a < b THEN a ELSE b

\* C1: the buffer never holds more than LOG_BUFFER_SIZE records, and it
\* holds exactly the last min(n, LOG_BUFFER_SIZE) of the n records appended
\* so far, in arrival order
BufferHoldsLastAppended ==
    /\ Len(log_buffer) <= LOG_BUFFER_SIZE
    /\ Len(log_buffer) = Min(Len(appended), LOG_BUFFER_SIZE)
    /\ \A i \in 1..Len(log_buffer) :
         log_buffer[i] = appended[Len(appended) - Len(log_buffer) + i]

\* more records than the capacity were appended, the evicted ones differing
\* from the ones kept
BufferHasEvicted ==
    /\ Len(appended) >= LOG_BUFFER_SIZE + 2
    /\ Len(log_buffer) = LOG_BUFFER_SIZE
    /\ appended[1] # log_buffer[1]
    /\ appended[2] # log_buffer[Len(log_buffer)]

\* C2: a publish that raises does not halt processing: no exception leaves
\* the per-sample step, so main() never stops consuming
SinkFailureDoesNotHalt == pc # "crashed"

\* C3: the tier of a sample is ALERT when its score is above 0.8, else
\* WARNING when it is above 0.5, else NORMAL; 0.8 itself is WARNING and 0.5
\* itself is NORMAL
TierByStrictThresholds ==
    last.kind = "sample" =>
        /\ last.score > 800 => last.tier = "ALERT"
        /\ (last.score > 500 /\ last.score <= 800) => last.tier = "WARNING"
        /\ last.score <= 500 => last.tier = "NORMAL"
        /\ last.score = 800 => last.tier = "WARNING"
        /\ last.score = 500 => last.tier = "NORMAL"

\* a sample scored exactly 0.8 was classified
SampleAtAnomalyThreshold ==
    last.kind = "sample" /\ last.score = 800 /\ last.tier = "WARNING"

\* C4: the buffer is scanned and a recommendation is published only while
\* processing a sample whose score is above 0.8; nothing else publishes
RcaOnlyOnAlert ==
    /\ [](last.kind = "sample" /\ last.score <= 800 =>
            ~last.scanned /\ last.rec = << >> /\ last.sink = "none")
    /\ [](last.kind # "sample" => ~last.scanned /\ last.sink = "none")
    /\ [][sent' # sent => last'.kind = "sample" /\ last'.score > 800]_vars

\* an ALERT sample was scanned for and published, a WARNING sample followed
\* and published nothing
WarningAfterAlert ==
    /\ last.kind = "sample" /\ last.tier = "WARNING"
    /\ Len(sent) = 1

SameHyperparameters(m) ==
    m.n_trees = 10 /\ m.height = 8 /\ m.window_size = 200 /\ m.seed = 42

\* C5: one model per metric name seen so far, built once with the fixed
\* hyperparameters; a later sample of the name learns into the same instance
\* and no model is removed or replaced
RegistryOneModelPerName ==
    /\ [](/\ \A n \in Registered :
               SameHyperparameters(detectors[n]) /\ detectors[n].learned >= 1
          /\ constructed = Cardinality(Registered)
          /\ \A n1, n2 \in Registered :
               detectors[n1].id = detectors[n2].id => n1 = n2
          /\ last.kind = "sample" =>
               last.name \in Registered /\ last.model = detectors[last.name].id)
    /\ [][/\ \A n \in Registered :
               /\ n \in DOMAIN detectors'
               /\ detectors'[n].id = detectors[n].id
               /\ detectors'[n].learned >= detectors[n].learned
          /\ (last'.kind = "sample" /\ last'.name \in Registered) =>
               detectors'[last'.name] =
                   [detectors[last'.name] EXCEPT !.learned = @ + 1]
          /\ (last'.kind = "sample" /\ last'.name \notin Registered) =>
               detectors'[last'.name].learned = 1
         ]_vars

\* a second sample of a name was processed: it learned into the model that
\* the first sample of the name had created
RegistryReused ==
    /\ last.kind = "sample"
    /\ constructed = 1
    /\ detectors[last.name].learned = 2
    /\ detectors[last.name].id = 1

\* C9: an ALERT on a metric whose name matches a rule hands a recommendation
\* to the sink whatever the scan of the buffer found
EmptyRcaStillRecommends ==
    (last.kind = "sample" /\ last.tier = "ALERT" /\ RuleMatches(last.name)) =>
        /\ last.rec # << >>
        /\ last.sink # "none"
        /\ sent # << >>
        /\ sent[Len(sent)] = last.rec[1]

\* an ALERT on a metric with a rule while the buffer is empty
AlertOnEmptyBuffer ==
    /\ last.kind = "sample" /\ last.tier = "ALERT" /\ RuleMatches(last.name)
    /\ log_buffer = << >>
    /\ last.diag = << >>
    /\ last.sink = "ok"

\* "error" in any letter case, letter by letter
ErrorAnyCase == << {"e","E"}, {"r","R"}, {"r","R"}, {"o","O"}, {"r","R"} >>

\* a record the scan is meant to select
Qualifies(l) ==
    \/ l.severity = "ERROR"
    \/ l.severity = "FATAL"
    \/ \E i \in 0..(Len(l.message) - 5) :
         \A j \in 1..5 : l.message[i + j] \in ErrorAnyCase[j]

\* the position in the buffer of the most recent selected record that
\* carries message msg, 0 when there is none
MostRecent(buf, msg) ==
    LET S == { i \in 1..Len(buf) : buf[i].message = msg /\ Qualifies(buf[i]) }
    IN IF S = {} THEN 0 ELSE CHOOSE i \in S : \A j \in S : j <= i

\* C7: the diagnostic list has at most 5 entries with pairwise distinct
\* messages, each entry is the most recent selected record of its message,
\* the entries are ordered most recent first, and the buffer of the example
\* gives exactly [(FATAL, "oom"), (ERROR, "disk full")]
DiagDedupedBoundedRecentFirst ==
    last.kind = "rca" =>
        LET pos(k) == MostRecent(log_buffer, last.diag[k].message)
        IN /\ Len(last.diag) <= 5
           /\ \A k1, k2 \in 1..Len(last.diag) :
                last.diag[k1].message = last.diag[k2].message => k1 = k2
           /\ \A k \in 1..Len(last.diag) :
                /\ pos(k) > 0
                /\ log_buffer[pos(k)].severity = last.diag[k].severity
                /\ k > 1 => pos(k - 1) > pos(k)
           /\ log_buffer = << LogRecord(1, "ERROR", t_disk_full),
                              LogRecord(2, "INFO", t_ok),
                              LogRecord(1, "ERROR", t_disk_full),
                              LogRecord(3, "FATAL", t_oom) >>
                => last.diag = << [severity |-> "FATAL", message |-> t_oom],
                                  [severity |-> "ERROR", message |-> t_disk_full] >>

\* the scan ran on a buffer of six selected records with six distinct
\* messages and left out the oldest
DiagAtLimit ==
    /\ last.kind = "rca"
    /\ Len(log_buffer) = 6
    /\ \A i \in 1..6 : Qualifies(log_buffer[i])
    /\ \A i, j \in 1..6 : log_buffer[i].message = log_buffer[j].message => i = j
    /\ Len(last.diag) = 5
    /\ last.diag[1].message = log_buffer[6].message
    /\ last.diag[5].message = log_buffer[2].message

\* C8: every entry of the diagnostic list is a record of the buffer with
\* severity ERROR or FATAL or with "error" (any letter case) in its message,
\* and when such records carry at most 5 distinct messages each of these
\* messages is in the list
DiagSoundAndComplete ==
    last.kind = "rca" =>
        LET idx == { i \in 1..Len(log_buffer) : Qualifies(log_buffer[i]) }
        IN /\ \A k \in 1..Len(last.diag) :
                \E i \in idx :
                   /\ log_buffer[i].severity = last.diag[k].severity
                   /\ log_buffer[i].message = last.diag[k].message
           /\ Cardinality({ log_buffer[i].message : i \in idx }) <= 5
                => \A i \in idx :
                     \E k \in 1..Len(last.diag) :
                        last.diag[k].message = log_buffer[i].message

\* the scan ran on a buffer whose only selected record is selected for the
\* mixed-case "ErRor" of its message, next to a record it must skip
DiagByMessageOnly ==
    /\ last.kind = "rca"
    /\ log_buffer = << LogRecord(2, "INFO", t_ok),
                       LogRecord(5, "INFO", t_IO_Error) >>
    /\ last.diag = << [severity |-> "INFO", message |-> t_IO_Error] >>

\* C6: when several callers access a new metric name at once, one model is
\* constructed for the name and every caller is given that instance
ConcurrentFirstAccessOneModel ==
    /\ constructed <= Cardinality({ callers[t].name : t \in DOMAIN callers })
    /\ \A t1, t2 \in DOMAIN callers :
         (/\ callers[t1].name = callers[t2].name
          /\ callers[t1].at \in {"learn", "done"}
          /\ callers[t2].at \in {"learn", "done"})
            => callers[t1].model = callers[t2].model

\* C10: a name containing "request_time" or "latency" gets impact high,
\* confidence 0.89, category Performance, also when it contains "cpu"; else
\* a name containing "cpu" gets impact medium, confidence 0.75; else the
\* result is none; the match is case-sensitive
RecommendationByFirstMatchingRule ==
    last.kind = "generate" =>
        /\ IF Contains(last.name, s_request_time) \/ Contains(last.name, s_latency)
           THEN /\ Len(last.rec) = 1
                /\ last.rec[1].impact = "high"
                /\ last.rec[1].confidence = 89
                /\ last.rec[1].category = "Performance"
           ELSE IF Contains(last.name, s_cpu)
           THEN /\ Len(last.rec) = 1
                /\ last.rec[1].impact = "medium"
                /\ last.rec[1].confidence = 75
           ELSE last.rec = << >>
        /\ last.name = m_nginx_request_time_ms => last.rec[1].impact = "high"
        /\ last.name = m_cpu_latency => last.rec[1].impact = "high"
        /\ last.name = m_cpu_request_time => last.rec[1].impact = "high"
        /\ last.name = m_node_cpu_usage => last.rec[1].impact = "medium"
        /\ last.name \in {m_disk_free_bytes, m_CPU_LOAD, m_upstream_Latency,
                          m_empty} => last.rec = << >>

\* a name containing both "cpu" and "latency" was given its recommendation
BothRulesMatch ==
    /\ last.kind = "generate"
    /\ last.name = m_cpu_latency
    /\ last.rec # << >>

\* C11: of any two recommendations generated in one run, the later one has
\* an id greater than or equal to the id of the earlier one
RecommendationIdsNonDecreasing ==
    \A i, j \in 1..Len(sent) : i < j => sent[i].id <= sent[j].id

\* C12: the number of values handed to the sink equals the number of ALERT
\* samples with a matching rule processed so far, one fresh recommendation
\* per such sample; a publish that failed was handed over once and is not
\* handed over again
PublishOncePerMatchedAlert ==
    /\ Len(sent) = matched
    /\ (last.kind = "sample" /\ last.rec # << >>) =>
          /\ sent[Len(sent)] = last.rec[1]
          /\ last.rec[1].value = last.value
    /\ (last.kind = "sample" /\ last.sink \in {"send_raises", "flush_raises"}) =>
          pc = "crashed"

\* two ALERT samples of one metric were processed, each with its own
\* recommendation handed to the sink
TwoAlertsTwoPublishes ==
    /\ last.kind = "sample"
    /\ matched = 2
    /\ Len(sent) = 2
    /\ sent[1].title = sent[2].title
    /\ detectors[last.name].learned = 2

\* C18: every message taken from the stream is fully processed, after which
\* main() is ready to take the next one, whatever the sink does
EveryMessageFullyProcessed == (pc = "metrics") ~> (pc = "idle")

\* C19: a sample is scored on the model as it is before the sample is
\* learned, the model then learns it, and the samples of a message are
\* processed one after the other in their order, each to its end
ScoreThenLearnInOrder ==
    /\ [](last.kind = "sample" =>
            last.seen + 1 = detectors[last.name].learned)
    /\ [][last'.kind = "sample" =>
            /\ pc = "metrics"
            /\ pending # << >>
            /\ pending' = Tail(pending)
            /\ last'.name = Head(pending).name
            /\ last'.value = Head(pending).value
            /\ TotalLearned' = TotalLearned + 1
         ]_vars

\* the second sample of a message was processed: it was scored on a model
\* that had learned the first one
SecondSampleScored ==
    /\ last.kind = "sample"
    /\ last.seen = 1
    /\ detectors[last.name].learned = 2
    /\ pc = "idle"

\* C21: in every interleaving of log appends with a correlation scan, the
\* buffer never holds more than LOG_BUFFER_SIZE records, the scan does not
\* end in an error, and a completed scan has seen the buffer as it was at
\* one moment, wholly before or wholly after each append
ScanAtomicAndCompletes ==
    /\ Len(log_buffer) <= LOG_BUFFER_SIZE
    /\ callers.at # "raised"
    /\ callers.at = "done" => callers.seen = callers.snap

\* C22: processing a sample of one metric changes the model of that metric
\* only: every other registered model stays registered and is the same
\* instance with the same sample counter, the model of the sample's metric
\* learns exactly one sample, and a step that processes no sample changes no
\* model
ModelsIndependent ==
    [][/\ last'.kind = "sample" =>
            /\ \A n \in DOMAIN detectors :
                  n # last'.name =>
                      /\ n \in DOMAIN detectors'
                      /\ detectors'[n] = detectors[n]
            /\ DOMAIN detectors' = DOMAIN detectors \cup {last'.name}
            /\ detectors'[last'.name].learned =
                  (IF last'.name \in DOMAIN detectors
                   THEN detectors[last'.name].learned ELSE 0) + 1
       /\ last'.kind # "sample" => detectors' = detectors
      ]_vars

\* samples of two metrics were interleaved: the model of the first metric
\* still holds its one sample after the sample of the second was processed
OtherModelUntouched ==
    /\ last.kind = "sample"
    /\ last.name = m_node_cpu_usage
    /\ m_nginx_request_time_ms \in Registered
    /\ detectors[m_nginx_request_time_ms].learned = 1
    /\ detectors[m_node_cpu_usage].learned = 1
    /\ detectors[m_nginx_request_time_ms].id # detectors[m_node_cpu_usage].id

\* the records of a sequence from position k on
Suffix(q, k) == [i \in 1..(Len(q) - k) |-> q[k + i]]

\* C23: a telemetry-logs message only appends to the log buffer (registry,
\* models and sink untouched), a telemetry-metrics message, its samples
\* included, never changes the log buffer, and a message of any other topic
\* changes nothing
FeedsTouchDisjointState ==
    [][/\ last'.topic = "telemetry-logs" =>
            /\ detectors' = detectors
            /\ constructed' = constructed
            /\ sent' = sent
            /\ matched' = matched
            /\ pc' = pc
            /\ pending' = pending
            /\ Len(appended') >= Len(appended)
            /\ \A i \in 1..Len(appended) : appended'[i] = appended[i]
            /\ LET all == log_buffer \o Suffix(appended', Len(appended))
               IN /\ Len(log_buffer') = Min(Len(all), LOG_BUFFER_SIZE)
                  /\ log_buffer' = Suffix(all, Len(all) - Len(log_buffer'))
       /\ last'.topic = "telemetry-metrics" =>
            /\ log_buffer' = log_buffer
            /\ appended' = appended
       /\ last'.topic \notin {"telemetry-logs", "telemetry-metrics"} =>
            /\ detectors' = detectors
            /\ constructed' = constructed
            /\ sent' = sent
            /\ matched' = matched
            /\ pc' = pc
            /\ pending' = pending
            /\ log_buffer' = log_buffer
            /\ appended' = appended
      ]_vars

\* a message of another topic was processed while the registry held a
\* model, the buffer held records and a recommendation had been published
OtherTopicAfterBothFeeds ==
    /\ last.kind = "other_msg"
    /\ last.topic = "telemetry-traces"
    /\ Registered # {}
    /\ log_buffer # << >>
    /\ sent # << >>

\* C24: a metrics or logs message whose parsing raises at any point, also
\* after datapoints or records were already extracted from it, is processed
\* as an empty message: nothing is raised to main(), no model is created,
\* nothing is learned, nothing is appended to the log buffer and nothing is
\* published
ParseFailureChangesNothing ==
    [][last'.malformed =>
          /\ pc = "idle"
          /\ pc' = "idle"
          /\ pending' = << >>
          /\ detectors' = detectors
          /\ constructed' = constructed
          /\ log_buffer' = log_buffer
          /\ appended' = appended
          /\ sent' = sent
          /\ matched' = matched
      ]_vars

\* a metrics message failed to parse after one datapoint had been extracted
\* from it, with a model registered and records in the buffer
PartialExtractionDiscarded ==
    /\ last.kind = "metrics_msg"
    /\ last.malformed
    /\ last.dropped = 1
    /\ Registered # {}
    /\ log_buffer # << >>
    /\ pc = "idle"

====
